---------------------------- MODULE Spec2Model ----------------------------
(***************************************************************************)
(* LlmFlow core (src/src/core.rs): the Node value, its validating          *)
(* constructor and consuming builders, and the retry loop of Node::exec.   *)
(*                                                                         *)
(* One caller is modelled: it holds the value of one builder chain         *)
(* (`chain`, a Result<Node, NodeError> once `new` was called), may move a  *)
(* Node into shared storage (`arcs`, the Arc<Node> values alive), and may  *)
(* run exec on the Node it holds.  exec is stepped statement by statement  *)
(* (`pc`, `attempts`), and what it does that a caller can observe is       *)
(* recorded in `log` (println, calls of execute_logic, sleeps) and         *)
(* `result` (the value returned).  `last` is the call the caller made      *)
(* last, with its arguments, and `runs` the number of times exec was       *)
(* called on the Node the caller holds.                                    *)
(*                                                                         *)
(* execute_logic is a placeholder in the source (it returns Ok(())); the   *)
(* retry loop is written for a body that may fail, so the outcome of each  *)
(* call is an input here: Ok(()) or Err(ExecutionError(detail)).           *)
(***************************************************************************)
EXTENDS Integers, Sequences, FiniteSets, TLC

VARIABLES chain, arcs, last, runs, pc, attempts, log, result

vars == <<chain, arcs, last, runs, pc, attempts, log, result>>

---------------------------------------------------------------------------
(* Program constants and value ranges *)

MAX_RETRIES == 10

MAX_WAIT_SECONDS == 60

\* Largest value of a u8 (the type of max_retries, wait and both arguments).
U8_MAX == 255

U8 == 0 .. U8_MAX

\* Number of Arc<Node> values the caller creates.
MaxArcs == 2

\* Number of calls of exec on one Node.
MaxRuns == 2

\* Option<T>
None == [some |-> FALSE]

Some(v) == [some |-> TRUE, v |-> v]

\* Result<T, NodeError>
Ok(v) == [ok |-> TRUE, val |-> v]

Err(e) == [ok |-> FALSE, err |-> e]

\* Ok(()) of exec and execute_logic
Unit == "()"

\* enum NodeError
ExecutionError(detail) == [kind |-> "ExecutionError", detail |-> detail]

InvalidRetryCount(given, max) ==
    [kind |-> "InvalidRetryCount", given |-> given, max |-> max]

InvalidWaitTime(given, max) ==
    [kind |-> "InvalidWaitTime", given |-> given, max |-> max]

EmptyNodeName == [kind |-> "EmptyNodeName"]

RetryLimitExceeded(n, message) ==
    [kind |-> "RetryLimitExceeded", attempts |-> n, message |-> message]

\* #[error("Node execution failed: {0}")]: the Display text e.to_string() of an
\* ExecutionError.
to_string(e) == "Node execution failed: " \o e.detail

\* struct Node
MkNode(name, nxt, max_retries, wait) ==
    [name |-> name, next |-> nxt, max_retries |-> max_retries, wait |-> wait]

---------------------------------------------------------------------------
(* Constructor, builders and accessor: pure functions of their arguments *)

\* name.unwrap_or("default")
unwrap_or(opt, default) == IF opt.some THEN opt.v ELSE default

\* Faulty variant: an empty name is treated like an absent one.
new_empty_as_absent(name) ==
    LET resolved == IF name.some /\ name.v # "" THEN name.v ELSE "default"
    IN  Ok(MkNode(resolved, None, 0, 0))

\* Node::new
new(name) ==
    LET resolved == unwrap_or(name, "default")
    IN  IF resolved = ""
        THEN Err(EmptyNodeName)
        ELSE Ok(MkNode(resolved, None, 0, 0))

\* Faulty variant: a successor already attached is kept.
with_next_keep(self, node) ==
    IF self.next.some THEN self ELSE [self EXCEPT !.next = Some(node)]

\* Node::with_next; `node` is the handle (index into arcs) of an Arc<Node>
with_next(self, node) == [self EXCEPT !.next = Some(node)]

\* Faulty variant: the Node is rebuilt and wait is not carried over.
with_retries_rebuild(self, retries) ==
    IF retries > MAX_RETRIES
    THEN Err(InvalidRetryCount(retries, MAX_RETRIES))
    ELSE Ok(MkNode(self.name, self.next, retries, 0))

\* Faulty variant: the limit itself is rejected.
with_retries_ge(self, retries) ==
    IF retries >= MAX_RETRIES
    THEN Err(InvalidRetryCount(retries, MAX_RETRIES))
    ELSE Ok([self EXCEPT !.max_retries = retries])

\* Faulty variant: an invalid count is ignored and the Node returned as it was.
with_retries_ignore(self, retries) ==
    IF retries > MAX_RETRIES
    THEN Ok(self)
    ELSE Ok([self EXCEPT !.max_retries = retries])

\* Node::with_retries
with_retries(self, retries) ==
    IF retries > MAX_RETRIES
    THEN Err(InvalidRetryCount(retries, MAX_RETRIES))
    ELSE Ok([self EXCEPT !.max_retries = retries])

\* Faulty variant: the Node is rebuilt and max_retries is not carried over.
with_wait_rebuild(self, wait) ==
    IF wait > MAX_WAIT_SECONDS
    THEN Err(InvalidWaitTime(wait, MAX_WAIT_SECONDS))
    ELSE Ok(MkNode(self.name, self.next, 0, wait))

\* Faulty variant: the Node is rebuilt from its name and loses its successor.
with_wait_drop_next(self, wait) ==
    IF wait > MAX_WAIT_SECONDS
    THEN Err(InvalidWaitTime(wait, MAX_WAIT_SECONDS))
    ELSE Ok(MkNode(self.name, None, self.max_retries, wait))

\* Faulty variant: no range check.
with_wait_unchecked(self, wait) == Ok([self EXCEPT !.wait = wait])

\* Faulty variant: a wait above the limit is clamped to it.
with_wait_clamp(self, wait) ==
    IF wait > MAX_WAIT_SECONDS
    THEN Ok([self EXCEPT !.wait = MAX_WAIT_SECONDS])
    ELSE Ok([self EXCEPT !.wait = wait])

\* Node::with_wait
with_wait(self, wait) ==
    IF wait > MAX_WAIT_SECONDS
    THEN Err(InvalidWaitTime(wait, MAX_WAIT_SECONDS))
    ELSE Ok([self EXCEPT !.wait = wait])

\* node.with_retries(r)?.with_wait(w): the second builder is called only on
\* the Node the first returned; an error ends the chain.
retries_then_wait(node, r, w) ==
    LET first == with_retries(node, r)
    IN  IF first.ok THEN with_wait(first.val, w) ELSE first

\* node.with_wait(w)?.with_retries(r)
wait_then_retries(node, r, w) ==
    LET first == with_wait(node, w)
    IN  IF first.ok THEN with_retries(first.val, r) ELSE first

\* Node::next
next(self) == self.next

---------------------------------------------------------------------------
(* Statements of Node::exec *)

\* Faulty variant: the loop test written with <.
loop_guard_lt(n, max_retries) == n < max_retries

\* while attempts <= self.max_retries
loop_guard(n, max_retries) == n <= max_retries

\* Faulty variant: the retry arm's guard written with <=.
retry_guard_le(n, max_retries) == n <= max_retries

\* Err(e) if attempts < self.max_retries
retry_guard(n, max_retries) == n < max_retries

\* Faulty variant: the error reports the number of calls made.
limit_error_calls(n, e) == RetryLimitExceeded(n + 1, to_string(e))

\* The RetryLimitExceeded built in the last match arm.
limit_error(n, e) == RetryLimitExceeded(n, to_string(e))

\* Duration::from_secs(self.wait as u64)
sleep_secs(self) == self.wait

\* Events of the log
Println(name) == [ev |-> "println", text |-> "Executing node " \o name]

\* `node` is the name of the Node whose execute_logic is called.
Called(node, k, res) ==
    [ev |-> "execute_logic", node |-> node, attempt |-> k, res |-> res]

Slept(secs) == [ev |-> "sleep", secs |-> secs]

---------------------------------------------------------------------------
(* State *)

NoChain == [some |-> FALSE]

\* The Node the caller holds, when the chain's value is Ok.
HasNode == chain.some /\ chain.v.ok

self == chain.v.val

\* Faulty variant: exec goes on into the successor, when there is one.
ExecutedNode == IF self.next.some THEN arcs[self.next.v] ELSE self

\* The Node whose logic the statements of exec run: &self.
Executed == self

Init ==
    /\ chain = NoChain
    /\ arcs = <<>>
    /\ last = [op |-> "none"]
    /\ runs = 0
    /\ pc = "idle"
    /\ attempts = 0
    /\ log = <<>>
    /\ result = None

---------------------------------------------------------------------------
(* The caller's calls.  A builder takes the Node by value: the chain's     *)
(* value becomes what the call returns.                                    *)

Create(names) ==
    /\ pc = "idle"
    /\ \E name \in names :
        /\ chain' = Some(new(name))
        /\ last' = [op |-> "new", name |-> name]
        /\ runs' = 0
    /\ UNCHANGED <<arcs, pc, attempts, log, result>>

WithRetries(args) ==
    /\ pc = "idle"
    /\ HasNode
    /\ \E retries \in args :
        /\ chain' = Some(with_retries(self, retries))
        /\ last' = [op |-> "with_retries", retries |-> retries]
        /\ runs' = 0
    /\ UNCHANGED <<arcs, pc, attempts, log, result>>

WithWait(args) ==
    /\ pc = "idle"
    /\ HasNode
    /\ \E wait \in args :
        /\ chain' = Some(with_wait(self, wait))
        /\ last' = [op |-> "with_wait", wait |-> wait]
        /\ runs' = 0
    /\ UNCHANGED <<arcs, pc, attempts, log, result>>

\* Arc::new(node): the Node moves into shared storage and is immutable there.
Share ==
    /\ pc = "idle"
    /\ HasNode
    /\ Len(arcs) < MaxArcs
    /\ arcs' = Append(arcs, self)
    /\ chain' = NoChain
    /\ last' = [op |-> "Arc::new"]
    /\ runs' = 0
    /\ UNCHANGED <<pc, attempts, log, result>>

\* (*arc).clone(): #[derive(Clone)] copies the shared Node into a new chain.
CloneArc ==
    /\ pc = "idle"
    /\ \E a \in 1 .. Len(arcs) :
        /\ chain' = Some(Ok(arcs[a]))
        /\ last' = [op |-> "clone", arc |-> a]
        /\ runs' = 0
    /\ UNCHANGED <<arcs, pc, attempts, log, result>>

WithNext ==
    /\ pc = "idle"
    /\ HasNode
    /\ \E a \in 1 .. Len(arcs) :
        /\ chain' = Some(Ok(with_next(self, a)))
        /\ last' = [op |-> "with_next", node |-> a, replaced |-> next(self)]
        /\ runs' = 0
    /\ UNCHANGED <<arcs, pc, attempts, log, result>>

---------------------------------------------------------------------------
(* Node::exec, one action per statement *)

\* Faulty variant: the counter is kept from one call to the next, so a call
\* after a failed one starts with the retries used up.
ExecStartCarried ==
    /\ pc = "idle"
    /\ HasNode
    /\ runs < MaxRuns
    /\ runs' = runs + 1
    /\ last' = [op |-> "exec"]
    /\ log' = <<Println(Executed.name)>>
    /\ attempts' = (IF runs = 0 THEN 0 ELSE self.max_retries)
    /\ result' = None
    /\ pc' = "while"
    /\ UNCHANGED <<chain, arcs>>

\* println!("Executing node {}", self.name); let mut attempts = 0;
ExecStart ==
    /\ pc = "idle"
    /\ HasNode
    /\ runs < MaxRuns
    /\ runs' = runs + 1
    /\ last' = [op |-> "exec"]
    /\ log' = <<Println(Executed.name)>>
    /\ attempts' = 0
    /\ result' = None
    /\ pc' = "while"
    /\ UNCHANGED <<chain, arcs>>

\* while attempts <= self.max_retries { ... } Ok(())
LoopTest ==
    /\ pc = "while"
    /\ IF loop_guard(attempts, self.max_retries)
       THEN /\ pc' = "match"
            /\ UNCHANGED result
       ELSE /\ pc' = "done"
            /\ result' = Some(Ok(Unit))
    /\ UNCHANGED <<chain, arcs, last, runs, attempts, log>>

\* Faulty variant: the error of the first failed attempt is the one reported.
MatchFirstError(details) ==
    /\ pc = "match"
    /\ \E res \in {Ok(Unit)} \cup {Err(ExecutionError(d)) : d \in details} :
        /\ log' = Append(log, Called(Executed.name, attempts, res))
        /\ IF res.ok
           THEN /\ pc' = "done"
                /\ result' = Some(Ok(Unit))
           ELSE IF retry_guard(attempts, self.max_retries)
           THEN /\ pc' = "sleep"
                /\ UNCHANGED result
           ELSE /\ pc' = "done"
                /\ result' = Some(Err(limit_error(attempts,
                                 IF Len(log) >= 2 THEN log[2].res.err ELSE res.err)))
    /\ UNCHANGED <<chain, arcs, last, runs, attempts>>

\* Faulty variant: the Ok arm has no break, the loop goes round again.
MatchNoBreak(details) ==
    /\ pc = "match"
    /\ \E res \in {Ok(Unit)} \cup {Err(ExecutionError(d)) : d \in details} :
        /\ log' = Append(log, Called(Executed.name, attempts, res))
        /\ IF res.ok
           THEN /\ pc' = "while"
                /\ UNCHANGED result
           ELSE IF retry_guard(attempts, self.max_retries)
           THEN /\ pc' = "sleep"
                /\ UNCHANGED result
           ELSE /\ pc' = "done"
                /\ result' = Some(Err(limit_error(attempts, res.err)))
    /\ UNCHANGED <<chain, arcs, last, runs, attempts>>

\* match self.execute_logic() { Ok(_) => break, Err(e) if .. => .., Err(e) => return .. }
Match(details) ==
    /\ pc = "match"
    /\ \E res \in {Ok(Unit)} \cup {Err(ExecutionError(d)) : d \in details} :
        /\ log' = Append(log, Called(Executed.name, attempts, res))
        /\ IF res.ok
           THEN /\ pc' = "done"
                /\ result' = Some(Ok(Unit))
           ELSE IF retry_guard(attempts, self.max_retries)
           THEN /\ pc' = "sleep"
                /\ UNCHANGED result
           ELSE /\ pc' = "done"
                /\ result' = Some(Err(limit_error(attempts, res.err)))
    /\ UNCHANGED <<chain, arcs, last, runs, attempts>>

\* Faulty variant: the delay grows with the attempt number.
SleepBackoff ==
    /\ pc = "sleep"
    /\ log' = Append(log, Slept(sleep_secs(Executed) * (attempts + 1)))
    /\ attempts' = attempts + 1
    /\ pc' = "while"
    /\ UNCHANGED <<chain, arcs, last, runs, result>>

\* Faulty variant: the retry arm forgets attempts += 1.
SleepNoIncrement ==
    /\ pc = "sleep"
    /\ log' = Append(log, Slept(sleep_secs(Executed)))
    /\ pc' = "while"
    /\ UNCHANGED <<chain, arcs, last, runs, attempts, result>>

\* std::thread::sleep(..); attempts += 1; continue;
\* attempts < max_retries <= U8_MAX here, so the u8 addition cannot overflow.
Sleep ==
    /\ pc = "sleep"
    /\ log' = Append(log, Slept(sleep_secs(Executed)))
    /\ attempts' = attempts + 1
    /\ pc' = "while"
    /\ UNCHANGED <<chain, arcs, last, runs, result>>

\* The caller takes the returned value; the locals of exec are gone.
ExecReturn ==
    /\ pc = "done"
    /\ pc' = "idle"
    /\ attempts' = 0
    /\ log' = <<>>
    /\ result' = None
    /\ UNCHANGED <<chain, arcs, last, runs>>

---------------------------------------------------------------------------
(* Specifications *)

\* Spec: one chain, every u8 argument, one failure detail.
NameArgs == {None, Some(""), Some("fetch"), Some(" ")}

Details == {"boom"}

Next ==
    \/ Create(NameArgs)
    \/ WithRetries(U8)
    \/ WithWait(U8)
    \/ ExecStart
    \/ LoopTest
    \/ Match(Details)
    \/ Sleep
    \/ ExecReturn

Spec == Init /\ [][Next]_vars

\* SpecGraph: chains with shared successors, one name, arguments at and
\* around the limits.
RetryArgs == {0, 2, MAX_RETRIES + 1, U8_MAX}

WaitArgs == {0, 1, MAX_WAIT_SECONDS + 1, U8_MAX}

NameArgsGraph == {Some("fetch"), Some("")}

NextGraph ==
    \/ Create(NameArgsGraph)
    \/ WithRetries(RetryArgs)
    \/ WithWait(WaitArgs)
    \/ Share
    \/ CloneArc
    \/ WithNext
    \/ ExecStart
    \/ LoopTest
    \/ Match(Details)
    \/ Sleep
    \/ ExecReturn

SpecGraph == Init /\ [][NextGraph]_vars

\* SpecDetail: one chain, arguments at and around the limits, and a work
\* function whose failures differ from one attempt to the next.
DetailsTwo == {"boom", "bang"}

NextDetail ==
    \/ Create(NameArgs)
    \/ WithRetries(RetryArgs)
    \/ WithWait(WaitArgs)
    \/ ExecStart
    \/ LoopTest
    \/ Match(DetailsTwo)
    \/ Sleep
    \/ ExecReturn

SpecDetail == Init /\ [][NextDetail]_vars

\* FairSpec: the thread that runs exec keeps running: a statement of exec that
\* is enabled is eventually executed (the sleep ends, execute_logic returns).
FairSpec ==
    /\ Spec
    /\ WF_vars(LoopTest)
    /\ WF_vars(Match(Details))
    /\ WF_vars(Sleep)

---------------------------------------------------------------------------
(* What a run of exec did, read from its log *)

Calls == SelectSeq(log, LAMBDA e : e.ev = "execute_logic")

Sleeps == SelectSeq(log, LAMBDA e : e.ev = "sleep")

NumCalls == Len(Calls)

NumSleeps == Len(Sleeps)

RECURSIVE SumSecs(_)
SumSecs(s) == IF s = <<>> THEN 0 ELSE Head(s).secs + SumSecs(Tail(s))

\* Total blocking time of the run, in seconds.
TotalSlept == SumSecs(Sleeps)

AllFailed == \A i \in 1 .. NumCalls : ~Calls[i].res.ok

AllSucceeded == \A i \in 1 .. NumCalls : Calls[i].res.ok

Returned == pc = "done"

---------------------------------------------------------------------------
(* Claims *)

\* C1: when every call of the work function fails, exec makes exactly
\* max_retries + 1 attempts and exactly max_retries sleeps, each of `wait`
\* seconds (max_retries * wait seconds in all), and returns
\* RetryLimitExceeded with attempts = max_retries; with max_retries = 2 and
\* wait = 0 that is RetryLimitExceeded{attempts: 2} after 3 attempts and no delay.
C1_AlwaysFailing ==
    (Returned /\ AllFailed) =>
        /\ self.max_retries \in 0 .. MAX_RETRIES
        /\ self.wait \in 0 .. MAX_WAIT_SECONDS
        /\ NumCalls = self.max_retries + 1
        /\ NumSleeps = self.max_retries
        /\ \A i \in 1 .. NumSleeps : Sleeps[i].secs = self.wait
        /\ TotalSlept = self.max_retries * self.wait
        /\ result.some /\ ~result.v.ok
        /\ result.v.err.kind = "RetryLimitExceeded"
        /\ result.v.err.attempts = self.max_retries
        /\ (self.max_retries = 2 /\ self.wait = 0) =>
              /\ result.v.err.attempts = 2
              /\ NumCalls = 3
              /\ TotalSlept = 0

\* The scenario of the spec: "fetch", 2 retries, no wait, every attempt failed.
C1_Witness ==
    /\ Returned /\ AllFailed
    /\ self.name = "fetch" /\ self.max_retries = 2 /\ self.wait = 0
    /\ NumCalls = 3
    /\ result = Some(Err(RetryLimitExceeded(2, "Node execution failed: boom")))

\* C2: when every call of the work function succeeds, exec returns Ok(())
\* after exactly one attempt and without sleeping, whatever max_retries and
\* wait are.
C2_AlwaysSucceeding ==
    /\ (pc # "idle" /\ AllSucceeded) => (NumCalls <= 1 /\ NumSleeps = 0)
    /\ (Returned /\ AllSucceeded) =>
          /\ NumCalls = 1
          /\ TotalSlept = 0
          /\ result = Some(Ok(Unit))

C2_Witness ==
    /\ Returned /\ AllSucceeded /\ NumCalls = 1
    /\ self.max_retries = MAX_RETRIES /\ self.wait = MAX_WAIT_SECONDS
    /\ result = Some(Ok(Unit))

\* C3: whatever the work function does on each attempt, a run of exec never
\* makes more than max_retries + 1 attempts and always reaches its return
\* (success or RetryLimitExceeded): the retry loop does not run forever.
C3_Terminates ==
    /\ [](pc # "idle" => NumCalls <= self.max_retries + 1)
    /\ (pc # "idle") ~> Returned

\* A run that used every attempt it had, and returned.
C3_Witness ==
    /\ Returned
    /\ self.max_retries = MAX_RETRIES
    /\ NumCalls = MAX_RETRIES + 1

\* C4: exec returns Ok(()) only if the last attempt it made succeeded, it
\* returns RetryLimitExceeded exactly when max_retries + 1 attempts were made
\* and all failed, and it returns nothing else.
C4_NoFailureSwallowed ==
    Returned =>
        /\ result.some
        /\ NumCalls >= 1
        /\ result.v.ok => (result.v.val = Unit /\ Calls[NumCalls].res.ok)
        /\ ~result.v.ok => result.v.err.kind = "RetryLimitExceeded"
        /\ ~result.v.ok <=> (AllFailed /\ NumCalls = self.max_retries + 1)

\* Success returned after failed attempts: the earlier failures were retried.
C4_Witness ==
    /\ Returned
    /\ result = Some(Ok(Unit))
    /\ NumCalls = 3
    /\ ~Calls[1].res.ok /\ ~Calls[2].res.ok /\ Calls[3].res.ok

\* Every Node alive: the one the caller holds and the shared ones.
Nodes == (IF HasNode THEN {self} ELSE {}) \cup {arcs[a] : a \in 1 .. Len(arcs)}

\* C5: every Node that exists has max_retries <= 10, wait <= 60 and a
\* non-empty name, whatever calls were made; a builder call with an argument
\* above its limit returns an error, not a Node with the limit in its place.
C5_ConfigInvariant ==
    /\ \A n \in Nodes :
          /\ n.max_retries <= MAX_RETRIES
          /\ n.wait <= MAX_WAIT_SECONDS
          /\ n.name # ""
    /\ (last.op = "with_retries" /\ last.retries > MAX_RETRIES) =>
          (chain.some /\ ~chain.v.ok /\ chain.v.err.kind = "InvalidRetryCount")
    /\ (last.op = "with_wait" /\ last.wait > MAX_WAIT_SECONDS) =>
          (chain.some /\ ~chain.v.ok /\ chain.v.err.kind = "InvalidWaitTime")

\* Two shared Nodes exist, and the last builder call was refused.
C5_Witness ==
    /\ Len(arcs) = 2
    /\ arcs[2].max_retries = 2 /\ arcs[2].wait = 1 /\ arcs[2].next = Some(1)
    /\ last = [op |-> "with_wait", wait |-> MAX_WAIT_SECONDS + 1]
    /\ ~HasNode

\* C6: with_retries(r) returns the Node with max_retries = r for r in 0..10
\* and InvalidRetryCount(r, 10) for r in 11..255.
C6_WithRetries ==
    last.op = "with_retries" =>
        /\ last.retries \in 0 .. 10 =>
              (HasNode /\ self.max_retries = last.retries)
        /\ last.retries \in 11 .. 255 =>
              chain = Some(Err(InvalidRetryCount(last.retries, 10)))

C6_Witness ==
    /\ last = [op |-> "with_retries", retries |-> 10]
    /\ HasNode /\ self.max_retries = 10 /\ self.wait = 60

\* C7: with_wait(w) returns the Node with wait = w for w in 0..60 and
\* InvalidWaitTime(w, 60) for w in 61..255.
C7_WithWait ==
    last.op = "with_wait" =>
        /\ last.wait \in 0 .. 60 => (HasNode /\ self.wait = last.wait)
        /\ last.wait \in 61 .. 255 =>
              chain = Some(Err(InvalidWaitTime(last.wait, 60)))

C7_Witness ==
    /\ last = [op |-> "with_wait", wait |-> 61]
    /\ chain = Some(Err(InvalidWaitTime(61, 60)))

\* C8: new succeeds for an absent name and for every non-empty name, with
\* exactly that name ("default" when absent), no successor, max_retries = 0
\* and wait = 0; it fails, with EmptyNodeName, exactly for Some("").
C8_Create ==
    last.op = "new" =>
        /\ chain.some
        /\ ~chain.v.ok <=> last.name = Some("")
        /\ ~chain.v.ok => chain.v.err = EmptyNodeName
        /\ chain.v.ok =>
              /\ self.name = (IF last.name.some THEN last.name.v ELSE "default")
              /\ self.next = None
              /\ self.max_retries = 0
              /\ self.wait = 0

\* new(Some("")) refused.
C8_Witness ==
    /\ last = [op |-> "new", name |-> Some("")]
    /\ chain = Some(Err(EmptyNodeName))

\* A builder call whose argument is above its limit.
Refused ==
    \/ last.op = "with_retries" /\ last.retries > MAX_RETRIES
    \/ last.op = "with_wait" /\ last.wait > MAX_WAIT_SECONDS

\* C9: after with_retries or with_wait was called with an argument above its
\* limit the chain's value is the error alone: it holds no Node, and no
\* builder, Arc::new or exec can be called on it.
C9_ErrorAbortsChain ==
    Refused =>
        /\ chain \in {Some(Err(InvalidRetryCount(r, MAX_RETRIES))) : r \in U8}
                \cup {Some(Err(InvalidWaitTime(w, MAX_WAIT_SECONDS))) : w \in U8}
        /\ ~HasNode
        /\ ~ENABLED WithRetries(U8)
        /\ ~ENABLED WithWait(U8)
        /\ ~ENABLED WithNext
        /\ ~ENABLED Share
        /\ ~ENABLED ExecStart
        /\ pc = "idle"

\* with_retries(11) refused while two shared Nodes exist.
C9_Witness ==
    /\ last = [op |-> "with_retries", retries |-> MAX_RETRIES + 1]
    /\ chain = Some(Err(InvalidRetryCount(MAX_RETRIES + 1, MAX_RETRIES)))
    /\ Len(arcs) = 2

\* C10: next() of a Node just created is None; after with_next(s) it is s,
\* also when another successor was attached before.
C10_Successor ==
    /\ (last.op = "new" /\ HasNode) => next(self) = None
    /\ last.op = "with_next" =>
          /\ HasNode
          /\ last.node \in 1 .. Len(arcs)
          /\ next(self) = Some(last.node)

\* The second with_next: successor 1 was attached, successor 2 replaced it.
C10_Witness ==
    /\ last = [op |-> "with_next", node |-> 2, replaced |-> Some(1)]
    /\ HasNode /\ next(self) = Some(2)
    /\ arcs[1] # arcs[2]

\* Arguments at and around the limits.
RetryEdge == {0, 2, MAX_RETRIES, MAX_RETRIES + 1, U8_MAX}

WaitEdge == {0, 1, MAX_WAIT_SECONDS, MAX_WAIT_SECONDS + 1, U8_MAX}

\* Both orders of the two builders agree on `node` for the arguments r and w.
OrderAgree(node, r, w) ==
    LET a == retries_then_wait(node, r, w)
        b == wait_then_retries(node, r, w)
    IN  IF r <= 10 /\ w <= 60
        THEN /\ a.ok /\ b.ok
             /\ a.val = b.val
             /\ a.val = MkNode(node.name, node.next, r, w)
        ELSE ~a.ok /\ ~b.ok

\* C11: for r in 0..10 and w in 0..60, with_retries(r) then with_wait(w)
\* gives the same Node (name, next, max_retries = r, wait = w) as
\* with_wait(w) then with_retries(r); if r or w is above its limit, both
\* orders end in an error.  Every pair of u8 arguments is tried on each Node
\* as new returns it, the arguments at and around the limits on every Node
\* (configured, with or without a successor).
C11_OrderIndependent ==
    (pc = "idle" /\ HasNode) =>
        /\ \A r \in RetryEdge, w \in WaitEdge : OrderAgree(self, r, w)
        /\ (last.op = "new" /\ arcs = <<>>) =>
              \A r \in U8, w \in U8 : OrderAgree(self, r, w)

\* A Node with a successor, configured retries first, which the other order
\* rebuilds from the unconfigured Node.
C11_Witness ==
    /\ pc = "idle" /\ HasNode
    /\ last = [op |-> "with_wait", wait |-> 1]
    /\ self.next = Some(1) /\ self.max_retries = 2 /\ self.wait = 1
    /\ wait_then_retries(MkNode(self.name, self.next, 0, 0), 2, 1) = Ok(self)

\* C12: if the work function fails on its first f attempts (f <= max_retries)
\* and succeeds on attempt f + 1, exec returns Ok(()) after exactly f + 1
\* attempts and f sleeps: the successful attempt is the last thing exec does,
\* however many retries remain.
C12_StopsOnSuccess ==
    \A i \in 1 .. NumCalls :
        Calls[i].res.ok =>
            /\ \A j \in 1 .. i - 1 : ~Calls[j].res.ok
            /\ i - 1 <= self.max_retries
            /\ NumCalls = i
            /\ NumSleeps = i - 1
            /\ TotalSlept = (i - 1) * self.wait
            /\ log[Len(log)] = Calls[i]
            /\ Returned
            /\ result = Some(Ok(Unit))
            /\ ~ENABLED Match(Details)
            /\ ~ENABLED Sleep
            /\ ~ENABLED LoopTest

\* Two failures, then success, with 8 of 10 retries unused.
C12_Witness ==
    /\ Returned
    /\ self.max_retries = MAX_RETRIES
    /\ NumCalls = 3 /\ NumSleeps = 2
    /\ ~Calls[1].res.ok /\ ~Calls[2].res.ok /\ Calls[3].res.ok
    /\ result = Some(Ok(Unit))

IsCall(e) == e.ev = "execute_logic"

IsSleep(e) == e.ev = "sleep"

\* C13: in a run of exec attempts and sleeps alternate.  The run starts with
\* attempt 0; a sleep comes only directly after a failed attempt k with
\* k < max_retries, lasts `wait` seconds whatever k is, and is directly
\* followed by attempt k + 1; nothing follows a successful attempt or the
\* failed attempt max_retries.
C13_Alternation ==
    pc # "idle" =>
        /\ log[1] = Println(self.name)
        /\ Len(log) >= 2 => (IsCall(log[2]) /\ log[2].attempt = 0)
        /\ \A i \in 2 .. Len(log) :
              /\ IsCall(log[i]) \/ IsSleep(log[i])
              /\ IsSleep(log[i]) =>
                    /\ IsCall(log[i - 1])
                    /\ ~log[i - 1].res.ok
                    /\ log[i - 1].attempt < self.max_retries
                    /\ log[i].secs = self.wait
                    /\ IF i < Len(log)
                       THEN /\ IsCall(log[i + 1])
                            /\ log[i + 1].attempt = log[i - 1].attempt + 1
                       ELSE pc \in {"while", "match"}
              /\ IsCall(log[i]) =>
                    IF log[i].res.ok \/ log[i].attempt = self.max_retries
                    THEN i = Len(log) /\ Returned
                    ELSE IF i < Len(log)
                    THEN IsSleep(log[i + 1])
                    ELSE pc = "sleep"

\* Three failed attempts with a sleep of 60 seconds between each two.
C13_Witness ==
    /\ Returned
    /\ self.max_retries = 2 /\ self.wait = MAX_WAIT_SECONDS
    /\ Len(log) = 6
    /\ IsCall(log[2]) /\ IsSleep(log[3]) /\ IsCall(log[4])
    /\ IsSleep(log[5]) /\ IsCall(log[6])
    /\ log[3].secs = 60 /\ log[5].secs = 60
    /\ AllFailed

\* exec returned an error.
Failed == Returned /\ result.some /\ ~result.v.ok

BuilderStep == pc = "idle" /\ pc' = "idle" /\ HasNode /\ HasNode'

\* C16: with_retries changes max_retries only, with_wait changes wait only,
\* with_next changes next only, each to the value given whatever the field
\* held before (the last call wins), and no statement of exec changes a
\* field of the Node or of a shared Node.
C16_Frame ==
    [][/\ (BuilderStep /\ last'.op = "with_retries") =>
              chain'.v.val = [self EXCEPT !.max_retries = last'.retries]
       /\ (BuilderStep /\ last'.op = "with_wait") =>
              chain'.v.val = [self EXCEPT !.wait = last'.wait]
       /\ (BuilderStep /\ last'.op = "with_next") =>
              chain'.v.val = [self EXCEPT !.next = Some(last'.node)]
       /\ (pc # "idle" \/ pc' # "idle") => (chain' = chain /\ arcs' = arcs)
      ]_vars

\* with_retries(2) returned a Node whose name, successor and wait were set
\* before.
C16_Witness ==
    /\ pc = "idle" /\ HasNode
    /\ last = [op |-> "with_retries", retries |-> 2]
    /\ self = MkNode("fetch", Some(2), 2, 1)

\* C17: a successor, once attached, stays the successor next() returns
\* through every later with_retries, with_wait and statement of exec on the
\* Node, and the shared Node it refers to is never changed, whatever is
\* called on this Node or on another Node that has the same successor; only
\* with_next replaces it.
C17_SuccessorStable ==
    [][/\ Len(arcs') >= Len(arcs)
       /\ \A a \in 1 .. Len(arcs) : arcs'[a] = arcs[a]
       /\ (/\ HasNode /\ HasNode'
           /\ last'.op \in {"with_retries", "with_wait", "exec"}) =>
              next(chain'.v.val) = next(self)
      ]_vars

\* A Node that has successor 1, as the shared Node 2 has, after
\* with_retries, with_wait and a run of exec that failed.
C17_Witness ==
    /\ Failed
    /\ Len(arcs) = 2
    /\ arcs[2].next = Some(1)
    /\ next(self) = Some(1)
    /\ self.max_retries = 2 /\ self.wait = 1
    /\ arcs[1] = MkNode("fetch", None, 0, 0)

\* C18: exec on a Node that has a successor runs that Node's own logic only:
\* it announces and calls this Node, sleeps this Node's wait, is bounded by
\* this Node's max_retries, and returns what the same run returns without a
\* successor (Ok(()) after the first success, RetryLimitExceeded after
\* max_retries + 1 failures); the successor is not run.
C18_SuccessorNotRun ==
    (pc # "idle" /\ next(self).some) =>
        /\ log[1] = Println(self.name)
        /\ \A i \in 1 .. NumCalls :
              /\ Calls[i].node = self.name
              /\ Calls[i].attempt = i - 1
              /\ Calls[i].attempt <= self.max_retries
        /\ \A i \in 1 .. NumSleeps : Sleeps[i].secs = self.wait
        /\ Returned =>
              IF Calls[NumCalls].res.ok
              THEN result = Some(Ok(Unit))
              ELSE /\ NumCalls = self.max_retries + 1
                   /\ result = Some(Err(RetryLimitExceeded(self.max_retries,
                                   to_string(Calls[NumCalls].res.err))))

\* A run of a Node with 2 retries and wait 1 whose successor has no retry
\* and no wait: three failed calls and two sleeps of 1 second.
C18_Witness ==
    /\ Failed
    /\ self = MkNode("fetch", Some(1), 2, 1)
    /\ arcs[1] = MkNode("fetch", None, 0, 0)
    /\ NumCalls = 3 /\ NumSleeps = 2

\* C19: exec can be called again and again on a Node, and every call starts
\* afresh: whatever calls came before, the run begins with the announcement
\* and attempt 0, its counter counts the retries of this run only, and what
\* it returns is decided by the Node's configuration and the outcomes of
\* this run's calls alone.
C19_FreshRun ==
    pc # "idle" =>
        /\ runs \in 1 .. MaxRuns
        /\ log[1] = Println(self.name)
        /\ Len(log) = 1 => (attempts = 0 /\ result = None)
        /\ attempts = NumSleeps
        /\ \A i \in 1 .. NumCalls : Calls[i].attempt = i - 1
        /\ Returned =>
              /\ NumCalls >= 1
              /\ NumSleeps = NumCalls - 1
              /\ IF Calls[NumCalls].res.ok
                 THEN result = Some(Ok(Unit))
                 ELSE /\ NumCalls = self.max_retries + 1
                      /\ result.some /\ ~result.v.ok
                      /\ result.v.err.attempts = self.max_retries

\* The second run on a Node with 10 retries: it failed after using all of
\* them again.
C19_Witness ==
    /\ runs = 2
    /\ Failed
    /\ self.max_retries = MAX_RETRIES
    /\ NumCalls = MAX_RETRIES + 1
    /\ Calls[1].attempt = 0

\* C20: while exec runs, 0 <= attempts <= max_retries <= 10, so the u8
\* counter cannot overflow and the loop test `attempts <= max_retries` is
\* never false: the loop is left through break (then Ok(()) is returned) or
\* through the return of RetryLimitExceeded, never through its test.
C20_CounterBounds ==
    pc # "idle" =>
        /\ 0 <= attempts
        /\ attempts <= self.max_retries
        /\ self.max_retries <= 10
        /\ attempts + 1 <= U8_MAX
        /\ Returned =>
              /\ NumCalls >= 1
              /\ result.some
              /\ result.v.ok <=> Calls[NumCalls].res.ok
              /\ ~result.v.ok <=> (/\ ~Calls[NumCalls].res.ok
                                   /\ Calls[NumCalls].attempt = self.max_retries)

\* The loop test with the counter at its largest value.
C20_Witness ==
    /\ pc = "while"
    /\ attempts = 10
    /\ self.max_retries = 10

=============================================================================
